---------------------------- MODULE Spec2Model ----------------------------
(***************************************************************************)
(* Strong bisimilarity of two labelled transition systems by the          *)
(* Kanellakis-Smolka partition refinement (bisim.py).                      *)
(*                                                                         *)
(* Spec    : are_bisimilar(file1, file2), from the two input files to the  *)
(*           verdict.                                                      *)
(* SpecSym : Spec followed by a second call with the arguments swapped.    *)
(* SpecKS  : kanellakis_smolka on an LTS built by add_transition calls.    *)
(***************************************************************************)
EXTENDS Naturals, Sequences, FiniteSets, TLC

VARIABLES
    file1, file2,       \* the two inputs of are_bisimilar: sequences of lines
    pc,                 \* position of the program
    lts1, lts2,         \* the two loaded LTS objects
    init1, init2,       \* their initial states (init1_orig, then map1[init1_orig])
    lts,                \* the LTS kanellakis_smolka works on (combined)
    partition,          \* kanellakis_smolka: List[Set[str]]
    new_partition,      \* kanellakis_smolka: the list assembled by the current pass
    changed,            \* kanellakis_smolka: the flag of the while loop
    idx,                \* position of the for loop over partition (1-based)
    action_order,       \* enumeration order of lts.actions in the current pass
    passes,             \* number of passes of the while loop begun so far
    result,             \* verdict of are_bisimilar ("none" until it returns)
    raised,             \* exception that escaped are_bisimilar ("none" if none)
    call,               \* 1: are_bisimilar(A, B); 2: the swapped call (SpecSym)
    first,              \* verdict of call 1, kept for call 2
    maps                \* the state maps prefix_states returned: <<map1, map2>>

vars == <<file1, file2, pc, lts1, lts2, init1, init2, lts, partition,
          new_partition, changed, idx, action_order, passes, result, raised,
          call, first, maps>>

ksvars == <<lts, partition, new_partition, changed, idx, action_order, passes>>

----------------------------------------------------------------------------
(* Bounds and input universes *)

MaxLines == 2           \* lines per input file (Spec, SpecSym)
MaxTransitions == 3     \* add_transition calls that build the LTS (SpecKS)
MaxPrefix == 2          \* prefix_states calls while the LTS is built (SpecLTS)
MaxPasses == 5          \* the pass counter stops counting here

Prefixes == {"L1", "L2"}            \* the prefixes are_bisimilar uses

FileStates == {"s", "t"}            \* state names used in input files
StateNames == {"s", "t", "u"}       \* state names used by add_transition (SpecKS)
ActionNames == {"a", "b"}

None == "<None>"        \* Python's None (init before the first valid line)

\* A line is the sequence of its whitespace-separated tokens; the token "#"
\* stands for a first token that begins with '#'.
ValidLines == {<<s, a, t>> : s \in FileStates, a \in ActionNames, t \in FileStates}
SkippedLines == { <<>>, <<"s">>, <<"#", "s", "a">> }
Lines == ValidLines \cup SkippedLines

Files == UNION {[1..n -> Lines] : n \in 0..MaxLines}

----------------------------------------------------------------------------
(* class LTS *)

EmptyDict == [k \in {} |-> <<>>]

\* LTS.__init__
NewLTS == [transitions |-> EmptyDict, states |-> {}, actions |-> {}]

\* defaultdict(list): d[key].append(item)
DictAppend(d, key, item) ==
    [k \in DOMAIN d \cup {key} |->
        IF k = key
        THEN Append(IF k \in DOMAIN d THEN d[k] ELSE <<>>, item)
        ELSE d[k]]

\* LTS.add_transition
add_transition(l, source, action, target) ==
    [transitions |-> DictAppend(l.transitions, source, <<action, target>>),
     states      |-> l.states \cup {source, target},
     actions     |-> l.actions \cup {action}]

\* PrefixName that forgets the prefix
PrefixNameUnprefixed(prefix, state) == state

\* PrefixName that forgets the state: every state gets the same new name
PrefixNameOnly(prefix, state) == prefix \o "_"

\* f"{prefix}_{state}"
PrefixName(prefix, state) == prefix \o "_" \o state

\* state_map of prefix_states
StateMap(l, prefix) == [st \in l.states |-> PrefixName(prefix, st)]

MapList(trans_list, state_map) ==
    [i \in 1..Len(trans_list) |-> <<trans_list[i][1], state_map[trans_list[i][2]]>>]

\* the loop of prefix_states over self.transitions.items(): the lists of the
\* sources in srcs are appended, renamed, to new_transitions
RECURSIVE RenameTransitions(_, _, _, _)
RenameTransitions(srcs, transitions, state_map, new_transitions) ==
    IF srcs = {} THEN new_transitions
    ELSE LET src_orig == CHOOSE x \in srcs : TRUE
             new_src  == state_map[src_orig]
             old      == IF new_src \in DOMAIN new_transitions
                         THEN new_transitions[new_src] ELSE <<>>
             grown    == IF transitions[src_orig] = <<>> THEN new_transitions
                         ELSE [k \in DOMAIN new_transitions \cup {new_src} |->
                                 IF k = new_src
                                 THEN old \o MapList(transitions[src_orig],
                                                     state_map)
                                 ELSE new_transitions[k]]
         IN RenameTransitions(srcs \ {src_orig}, transitions, state_map, grown)

\* LTS.prefix_states: the relabelled LTS and the returned state_map
prefix_states(l, prefix) ==
    LET state_map == StateMap(l, prefix)
    IN [lts |-> [transitions |-> RenameTransitions(DOMAIN l.transitions,
                                     l.transitions, state_map, EmptyDict),
                 states      |-> {state_map[st] : st \in l.states},
                 actions     |-> l.actions],
        state_map |-> state_map]

----------------------------------------------------------------------------
(* load_lts *)

IsComment(line) == Len(line) > 0 /\ line[1] = "#"

\* the for loop over the lines of the file
RECURSIVE LoadLines(_, _, _)
LoadLines(lines, init, l) ==
    IF lines = <<>> THEN [init |-> init, lts |-> l]
    ELSE LET line == Head(lines) IN
         IF Len(line) = 0 \/ IsComment(line)
         THEN LoadLines(Tail(lines), init, l)
         ELSE IF Len(line) # 3
         THEN LoadLines(Tail(lines), init, l)
         ELSE LoadLines(Tail(lines),
                        IF init = None THEN line[1] ELSE init,
                        add_transition(l, line[1], line[2], line[3]))

\* load_lts(path): error is the exception raised, "none" if it returns
load_lts(file) ==
    LET r == LoadLines(file, None, NewLTS) IN
    IF r.init = None
    THEN [error |-> "ValueError", init |-> None,
          lts |-> [r.lts EXCEPT !.states = {}]]
    ELSE IF r.lts.states = {}
    THEN [error |-> "none", init |-> r.init,
          lts |-> [r.lts EXCEPT !.states = {r.init}]]
    ELSE [error |-> "none", init |-> r.init, lts |-> r.lts]

----------------------------------------------------------------------------
(* split_block *)

\* AfterGet with transitions[state] for transitions.get(state, []): reading a
\* missing key of a defaultdict(list) inserts it
AfterGetItem(transitions, state) ==
    [k \in DOMAIN transitions \cup {state} |->
        IF k \in DOMAIN transitions THEN transitions[k] ELSE <<>>]

\* the dict after transitions.get(state, []): get inserts nothing
AfterGet(transitions, state) == transitions

\* the dict after split_block has read the transitions of every state of block
RECURSIVE AfterReads(_, _)
AfterReads(block, transitions) ==
    IF block = {} THEN transitions
    ELSE LET st == CHOOSE x \in block : TRUE IN
         AfterReads(block \ {st}, AfterGet(transitions, st))

\* transitions.get(state, [])
TransitionsGet(transitions, state) ==
    IF state \in DOMAIN transitions THEN transitions[state] ELSE <<>>

\* for blk_in_partition in partition: if tgt in blk: add; break
FindBlock(tgt, part) ==
    LET hits == {i \in 1..Len(part) : tgt \in part[i]} IN
    IF hits = {} THEN {}
    ELSE {part[CHOOSE i \in hits : \A j \in hits : i <= j]}

\* ReachKey without "if act_trans == action": every transition counts
ReachKeyAnyAction(state, action, part, transitions) ==
    LET trans_list == TransitionsGet(transitions, state) IN
    UNION {FindBlock(trans_list[i][2], part) : i \in 1..Len(trans_list)}

\* ReachKey that records only whether the state has a transition by the action
ReachKeyEnabledOnly(state, action, part, transitions) ==
    LET trans_list == TransitionsGet(transitions, state) IN
    {TRUE : i \in {j \in 1..Len(trans_list) : trans_list[j][1] = action}}

\* ReachKey made of the target states themselves, not of their blocks
ReachKeyTargets(state, action, part, transitions) ==
    LET trans_list == TransitionsGet(transitions, state) IN
    {trans_list[i][2] :
       i \in {j \in 1..Len(trans_list) : trans_list[j][1] = action}}

\* ReachKey that also counts the transitions into each block reached
ReachKeyCounting(state, action, part, transitions) ==
    LET trans_list == TransitionsGet(transitions, state)
        by_action  == {j \in 1..Len(trans_list) : trans_list[j][1] = action}
    IN {<<b, Cardinality({i \in by_action : trans_list[i][2] \in b})>> :
          b \in UNION {FindBlock(trans_list[i][2], part) : i \in by_action}}

\* key of a state: the set of blocks it reaches by the action
ReachKey(state, action, part, transitions) ==
    LET trans_list == TransitionsGet(transitions, state) IN
    UNION {FindBlock(trans_list[i][2], part) :
             i \in {j \in 1..Len(trans_list) : trans_list[j][1] = action}}

\* split_block with "reach_map[key] = {state}" for "reach_map[key].add(state)":
\* each sub-block keeps one state only
split_block_overwrite(block, action, part, transitions) ==
    LET keys == {ReachKey(st, action, part, transitions) : st \in block} IN
    {{CHOOSE st \in block : ReachKey(st, action, part, transitions) = key} :
        key \in keys}

\* split_block with "for state in" every block of the partition, not only block
split_block_all_states(block, action, part, transitions) ==
    LET all  == UNION {part[i] : i \in 1..Len(part)}
        keys == {ReachKey(st, action, part, transitions) : st \in block} IN
    {{st \in all : ReachKey(st, action, part, transitions) = key} : key \in keys}

\* the values of reach_map that are not empty
split_block(block, action, part, transitions) ==
    LET keys == {ReachKey(st, action, part, transitions) : st \in block} IN
    {sub \in {{st \in block : ReachKey(st, action, part, transitions) = key} :
                key \in keys} : sub # {}}

----------------------------------------------------------------------------
(* kanellakis_smolka *)

\* the orders in which a set can be enumerated: Python leaves the iteration
\* order of a set (lts.actions, a block) unspecified, so every order is drawn;
\* the order of lts.actions is drawn anew at each pass, which includes the one
\* fixed order of a single run
Orderings(S) ==
    {f \in [1..Cardinality(S) -> S] : \A i, j \in DOMAIN f : f[i] = f[j] => i = j}

\* len(block_to_refine) <= 1
IsSingleton(block) == Cardinality(block) <= 1

\* FirstSplitter that tries the first action of the order only
FirstSplitterFirstOnly(block, order, part, transitions) ==
    IF Len(order) >= 1
       /\ Cardinality(split_block(block, order[1], part, transitions)) > 1
    THEN 1 ELSE 0

\* FirstSplitter with "len(sub_blocks) >= 1" for "len(sub_blocks) > 1"
FirstSplitterAtLeastOne(block, order, part, transitions) ==
    LET hits == {i \in 1..Len(order) :
                   Cardinality(split_block(block, order[i], part, transitions)) >= 1}
    IN IF hits = {} THEN 0 ELSE CHOOSE i \in hits : \A j \in hits : i <= j

\* FirstSplitter without the break: the last action that splits wins
FirstSplitterLast(block, order, part, transitions) ==
    LET hits == {i \in 1..Len(order) :
                   Cardinality(split_block(block, order[i], part, transitions)) > 1}
    IN IF hits = {} THEN 0 ELSE CHOOSE i \in hits : \A j \in hits : i >= j

\* position in order of the first action whose split has more than one
\* sub-block, 0 if there is none
FirstSplitter(block, order, part, transitions) ==
    LET hits == {i \in 1..Len(order) :
                   Cardinality(split_block(block, order[i], part, transitions)) > 1}
    IN IF hits = {} THEN 0 ELSE CHOOSE i \in hits : \A j \in hits : i <= j

\* NextPartition without "partition = new_partition"
NextPartitionKeepsOld(chg, part, new_part) == part

\* if changed: partition = new_partition
NextPartition(chg, part, new_part) == IF chg THEN new_part ELSE part

\* variables of are_bisimilar and of its caller, untouched by kanellakis_smolka
callervars == <<file1, file2, lts1, lts2, init1, init2, result, raised, call,
                first, maps>>

\* entry: if not lts.states: return []; otherwise partition = [set(lts.states)],
\* changed = True, and the first pass of the while loop begins (worklist is
\* assigned and never read)
KSEntry ==
    /\ pc = "ks_entry"
    /\ IF lts.states = {}
       THEN /\ partition' = <<>>
            /\ pc' = "ks_done"
            /\ UNCHANGED <<new_partition, changed, idx, action_order, passes>>
       ELSE /\ partition' = <<lts.states>>
            /\ changed' = FALSE
            /\ new_partition' = <<>>
            /\ idx' = 1
            /\ passes' = 1
            /\ action_order' \in Orderings(lts.actions)
            /\ pc' = "ks_for"
    /\ UNCHANGED <<lts, callervars>>

\* one iteration of "for block_to_refine in partition"
RefineBlock ==
    /\ pc = "ks_for"
    /\ idx <= Len(partition)
    /\ LET block == partition[idx]
           k     == FirstSplitter(block, action_order, partition, lts.transitions)
       IN IF IsSingleton(block) \/ k = 0
          THEN /\ new_partition' = Append(new_partition, block)
               /\ UNCHANGED changed
          ELSE /\ \E sub_blocks \in Orderings(split_block(block, action_order[k],
                                                 partition, lts.transitions)) :
                      new_partition' = new_partition \o sub_blocks
               /\ changed' = TRUE
    /\ lts' = IF IsSingleton(partition[idx]) \/ action_order = <<>>
              THEN lts
              ELSE [lts EXCEPT !.transitions =
                                  AfterReads(partition[idx], lts.transitions)]
    /\ idx' = idx + 1
    /\ UNCHANGED <<pc, partition, action_order, passes, callervars>>

\* end of a pass that split a block: partition = new_partition; next pass begins
NextPass ==
    /\ pc = "ks_for"
    /\ idx > Len(partition)
    /\ changed
    /\ partition' = NextPartition(changed, partition, new_partition)
    /\ changed' = FALSE
    /\ new_partition' = <<>>
    /\ idx' = 1
    /\ passes' = IF passes < MaxPasses THEN passes + 1 ELSE passes
    /\ action_order' \in Orderings(lts.actions)
    /\ UNCHANGED <<pc, lts, callervars>>

\* end of a pass that split nothing: the loop ends, return partition
KSReturn ==
    /\ pc = "ks_for"
    /\ idx > Len(partition)
    /\ ~changed
    /\ partition' = NextPartition(changed, partition, new_partition)
    /\ pc' = "ks_done"
    /\ UNCHANGED <<lts, new_partition, changed, idx, action_order, passes, callervars>>

----------------------------------------------------------------------------
(* are_bisimilar *)

iovars == <<file1, file2, call, first>>

\* Catches with "except KeyError" for "except ValueError"
CatchesKeyError(error) == error = "KeyError"

\* except ValueError
Catches(error) == error = "ValueError"

\* return False, or the exception escapes
Fail(error) ==
    /\ pc' = "done"
    /\ IF Catches(error)
       THEN result' = FALSE /\ UNCHANGED raised
       ELSE raised' = error /\ UNCHANGED result

\* lts1, init1_orig = load_lts(file1)
Load1 ==
    /\ pc = "load1"
    /\ LET r == load_lts(file1) IN
       IF r.error # "none"
       THEN Fail(r.error) /\ UNCHANGED <<lts1, init1>>
       ELSE lts1' = r.lts /\ init1' = r.init /\ pc' = "load2"
                          /\ UNCHANGED <<result, raised>>
    /\ UNCHANGED <<lts2, init2, maps, ksvars, iovars>>

\* lts2, init2_orig = load_lts(file2)
Load2 ==
    /\ pc = "load2"
    /\ LET r == load_lts(file2) IN
       IF r.error # "none"
       THEN Fail(r.error) /\ UNCHANGED <<lts2, init2>>
       ELSE lts2' = r.lts /\ init2' = r.init /\ pc' = "compare"
                          /\ UNCHANGED <<result, raised>>
    /\ UNCHANGED <<lts1, init1, maps, ksvars, iovars>>

\* ActionsDiffer with the alphabet check left out (the union of actions is used)
ActionsNeverDiffer(l1, l2) == FALSE

\* ActionsDiffer that only asks lts1.actions to be within lts2.actions
ActionsNotSubset(l1, l2) == ~(l1.actions \subseteq l2.actions)

\* lts1.actions != lts2.actions
ActionsDiffer(l1, l2) == l1.actions # l2.actions

\* if lts1.actions != lts2.actions: return False
Compare ==
    /\ pc = "compare"
    /\ IF ActionsDiffer(lts1, lts2)
       THEN result' = FALSE /\ pc' = "done"
       ELSE pc' = "rename" /\ UNCHANGED result
    /\ UNCHANGED <<lts1, lts2, init1, init2, raised, maps, ksvars, iovars>>

\* map1 = lts1.prefix_states("L1"); map2 = ...; init1 = map1[init1_orig]; ...
Rename ==
    /\ pc = "rename"
    /\ LET r1 == prefix_states(lts1, "L1")
           r2 == prefix_states(lts2, "L2")
       IN /\ lts1' = r1.lts
          /\ lts2' = r2.lts
          /\ init1' = r1.state_map[init1]
          /\ init2' = r2.state_map[init2]
          /\ maps' = <<r1.state_map, r2.state_map>>
    /\ pc' = "merge"
    /\ UNCHANGED <<result, raised, ksvars, iovars>>

\* for s, trans_list in l.transitions.items(): for (a, t) in trans_list:
\*     combined.transitions[s].append((a, t))
RECURSIVE AppendAll(_, _, _)
AppendAll(d, key, trans_list) ==
    IF trans_list = <<>> THEN d
    ELSE AppendAll(DictAppend(d, key, Head(trans_list)), key, Tail(trans_list))

RECURSIVE CopyTransitions(_, _, _)
CopyTransitions(srcs, transitions, d) ==
    IF srcs = {} THEN d
    ELSE LET s == CHOOSE x \in srcs : TRUE IN
         CopyTransitions(srcs \ {s}, transitions, AppendAll(d, s, transitions[s]))

\* Combined without the loop over lts2.transitions
CombinedFirstLoopOnly(l1, l2) ==
    [states      |-> l1.states \cup l2.states,
     actions     |-> l1.actions,
     transitions |-> CopyTransitions(DOMAIN l1.transitions, l1.transitions,
                                     EmptyDict)]

\* Combined without "combined.states.update(lts2.states)"
CombinedStatesOfFirst(l1, l2) ==
    [states      |-> l1.states,
     actions     |-> l1.actions,
     transitions |-> CopyTransitions(DOMAIN l2.transitions, l2.transitions,
                        CopyTransitions(DOMAIN l1.transitions, l1.transitions,
                                        EmptyDict))]

\* combined = LTS("combined") and the updates and loops that fill it
Combined(l1, l2) ==
    [states      |-> l1.states \cup l2.states,
     actions     |-> l1.actions,
     transitions |-> CopyTransitions(DOMAIN l2.transitions, l2.transitions,
                        CopyTransitions(DOMAIN l1.transitions, l1.transitions,
                                        EmptyDict))]

\* the merge, and the call kanellakis_smolka(combined)
Merge ==
    /\ pc = "merge"
    /\ lts' = Combined(lts1, lts2)
    /\ pc' = "ks_entry"
    /\ UNCHANGED <<lts1, lts2, init1, init2, result, raised, iovars, maps,
                   partition, new_partition, changed, idx, action_order, passes>>

\* for block in final_partition: if init1 in block and init2 in block: return True
SameBlock(part, x, y) == \E i \in 1..Len(part) : x \in part[i] /\ y \in part[i]

Verdict ==
    /\ pc = "ks_done"
    /\ result' = SameBlock(partition, init1, init2)
    /\ pc' = "done"
    /\ UNCHANGED <<lts1, lts2, init1, init2, raised, maps, ksvars, iovars>>

----------------------------------------------------------------------------
(* Specifications *)

NoKS ==
    /\ partition = <<>> /\ new_partition = <<>> /\ changed = FALSE /\ idx = 1
    /\ action_order = <<>> /\ passes = 0

Init ==
    /\ file1 \in Files /\ file2 \in Files
    /\ pc = "load1"
    /\ lts1 = NewLTS /\ lts2 = NewLTS /\ init1 = None /\ init2 = None
    /\ lts = NewLTS
    /\ NoKS
    /\ result = "none" /\ raised = "none"
    /\ call = 1 /\ first = "none" /\ maps = <<>>

Next ==
    \/ Load1 \/ Load2 \/ Compare \/ Rename \/ Merge
    \/ KSEntry \/ RefineBlock \/ NextPass \/ KSReturn
    \/ Verdict

Spec == Init /\ [][Next]_vars

\* the test driver calls are_bisimilar(A, B), then are_bisimilar(B, A)
SecondCall ==
    /\ pc = "done" /\ call = 1
    /\ call' = 2 /\ first' = result
    /\ file1' = file2 /\ file2' = file1
    /\ pc' = "load1"
    /\ lts1' = NewLTS /\ lts2' = NewLTS /\ init1' = None /\ init2' = None
    /\ lts' = NewLTS
    /\ partition' = <<>> /\ new_partition' = <<>> /\ changed' = FALSE /\ idx' = 1
    /\ action_order' = <<>> /\ passes' = 0
    /\ result' = "none" /\ raised' = "none" /\ maps' = <<>>

NextSym == Next \/ SecondCall

SpecSym == Init /\ [][NextSym]_vars

\* the LTS is built by add_transition calls, then handed to kanellakis_smolka
NTransitions(l) ==
    LET RECURSIVE Sum(_)
        Sum(S) == IF S = {} THEN 0
                  ELSE LET x == CHOOSE y \in S : TRUE
                       IN Len(l.transitions[x]) + Sum(S \ {x})
    IN Sum(DOMAIN l.transitions)

AddTransition ==
    /\ pc = "build"
    /\ NTransitions(lts) < MaxTransitions
    /\ \E s \in StateNames, a \in ActionNames, t \in StateNames :
          lts' = add_transition(lts, s, a, t)
    /\ UNCHANGED <<file1, file2, pc, lts1, lts2, init1, init2, partition,
                   new_partition, changed, idx, action_order, passes, result,
                   raised, call, first, maps>>

CallKS ==
    /\ pc = "build"
    /\ pc' = "ks_entry"
    /\ UNCHANGED <<file1, file2, lts1, lts2, init1, init2, lts, partition,
                   new_partition, changed, idx, action_order, passes, result,
                   raised, call, first, maps>>

InitKS ==
    /\ file1 = <<>> /\ file2 = <<>>
    /\ pc = "build"
    /\ lts1 = NewLTS /\ lts2 = NewLTS /\ init1 = None /\ init2 = None
    /\ lts = NewLTS
    /\ NoKS
    /\ result = "none" /\ raised = "none"
    /\ call = 1 /\ first = "none" /\ maps = <<>>

NextKS == AddTransition \/ CallKS \/ KSEntry \/ RefineBlock \/ NextPass \/ KSReturn

SpecKS == InitKS /\ [][NextKS]_vars

\* kanellakis_smolka is sequential code: once called, each of its steps is taken
SpecKSFair ==
    SpecKS /\ WF_vars(KSEntry \/ RefineBlock \/ NextPass \/ KSReturn)

\* a call lts.prefix_states(prefix) while the LTS is built
PrefixStates ==
    /\ pc = "build"
    /\ Len(maps) < MaxPrefix
    /\ \E prefix \in Prefixes :
          LET r == prefix_states(lts, prefix) IN
          /\ lts' = r.lts
          /\ maps' = Append(maps, r.state_map)
    /\ UNCHANGED <<file1, file2, pc, lts1, lts2, init1, init2, partition,
                   new_partition, changed, idx, action_order, passes, result,
                   raised, call, first>>

\* the LTS operations: any sequence of add_transition and prefix_states calls
\* on a new LTS, and the LTS objects of are_bisimilar
InitLTS == Init \/ InitKS

NextLTS == Next \/ AddTransition \/ PrefixStates

SpecLTS == InitLTS /\ [][NextLTS]_vars

----------------------------------------------------------------------------
(* Reference notions the properties are stated with *)

\* the transition relation of an LTS object, as a set of triples
TriplesOf(l) ==
    UNION {{<<s, l.transitions[s][i][1], l.transitions[s][i][2]>> :
              i \in 1..Len(l.transitions[s])} : s \in DOMAIN l.transitions}

\* every move of x is matched by a move of y into R, and conversely
Matches(R, T, x, y) ==
    /\ \A tr \in T : tr[1] = x =>
          \E tr2 \in T : tr2[1] = y /\ tr2[2] = tr[2] /\ <<tr[3], tr2[3]>> \in R
    /\ \A tr \in T : tr[1] = y =>
          \E tr2 \in T : tr2[1] = x /\ tr2[2] = tr[2] /\ <<tr2[3], tr[3]>> \in R

\* the greatest strong bisimulation below R on the transition relation T
RECURSIVE GreatestBisimulation(_, _)
GreatestBisimulation(R, T) ==
    LET R2 == {p \in R : Matches(R, T, p[1], p[2])} IN
    IF R2 = R THEN R ELSE GreatestBisimulation(R2, T)

\* strong bisimilarity on the states S of a transition relation T
Bisimilarity(S, T) == GreatestBisimulation(S \X S, T)

----------------------------------------------------------------------------
(* Properties of kanellakis_smolka (SpecKS) *)

\* C1: the partition kanellakis_smolka returns is the strong-bisimilarity
\* quotient: two states of the LTS are in the same returned block if and only
\* if the greatest strong bisimulation on the LTS relates them.
C1_ReturnsBisimilarityQuotient ==
    pc = "ks_done" =>
        LET B == Bisimilarity(lts.states, TriplesOf(lts)) IN
        \A x, y \in lts.states : SameBlock(partition, x, y) <=> <<x, y>> \in B

\* a returned partition with a block of two bisimilar states and a second block
C1_Witness ==
    /\ pc = "ks_done"
    /\ Len(partition) >= 2
    /\ \E i \in 1..Len(partition) : Cardinality(partition[i]) >= 2
    /\ passes >= 2

\* the blocks of part, as a set
Blocks(part) == {part[i] : i \in 1..Len(part)}

\* part is a partition of S: no empty block, no two positions overlap, union S
IsPartitionOf(part, S) ==
    /\ \A i \in 1..Len(part) : part[i] # {}
    /\ \A i, j \in 1..Len(part) : i # j => part[i] \cap part[j] = {}
    /\ UNION Blocks(part) = S

\* C8: from the start of kanellakis_smolka on a non-empty state set, at every
\* pass boundary and at return, the working partition is a partition of
\* lts.states: blocks non-empty, pairwise disjoint, with union lts.states.
C8_PartitionValid ==
    (pc \in {"ks_for", "ks_done"} /\ lts.states # {}) =>
        IsPartitionOf(partition, lts.states)

\* a pass boundary after a pass that split a block into blocks of 2 and 1 states
C8_Witness ==
    /\ pc = "ks_for" /\ idx = 1 /\ passes = 2
    /\ Len(partition) = 2
    /\ \E i \in 1..2 : Cardinality(partition[i]) = 2

\* every block of part is inside some block of old
Refines(part, old) ==
    \A i \in 1..Len(part) : \E j \in 1..Len(old) : part[i] \subseteq old[j]

\* C9: every pass of kanellakis_smolka leaves each block inside a block of the
\* partition before the pass (no block grows, none are merged) and does not
\* lower the number of blocks.
C9_MonotonicRefinement ==
    [][pc = "ks_for" =>
          /\ Refines(partition', partition)
          /\ Len(partition') >= Len(partition)]_vars

\* the boundary after a second pass that split again: three blocks from two
C9_Witness ==
    /\ pc = "ks_for" /\ idx = 1 /\ passes = 3
    /\ Len(partition) = 3

\* the blocks of part that x reaches by transitions labelled a
BlocksReached(x, a, part, T) ==
    {b \in Blocks(part) : \E tr \in T : tr[1] = x /\ tr[2] = a /\ tr[3] \in b}

\* C10: the partition kanellakis_smolka returns is stable: two states of one
\* block reach the same set of blocks by every action of the alphabet, and one
\* more refinement pass over it would split no block.
C10_FixedPointStable ==
    pc = "ks_done" =>
        /\ \A b \in Blocks(partition) : \A a \in lts.actions : \A x, y \in b :
              BlocksReached(x, a, partition, TriplesOf(lts))
                = BlocksReached(y, a, partition, TriplesOf(lts))
        /\ \A i \in 1..Len(partition) : \A a \in lts.actions :
              Cardinality(split_block(partition[i], a, partition, lts.transitions)) <= 1

\* a returned partition, reached by splitting, that still has a block of two
\* states with transitions, over a two-action alphabet
C10_Witness ==
    /\ pc = "ks_done" /\ passes >= 2
    /\ Cardinality(lts.actions) = 2
    /\ \E i \in 1..Len(partition) :
          /\ Cardinality(partition[i]) = 2
          /\ partition[i] \subseteq DOMAIN lts.transitions

----------------------------------------------------------------------------
(* Properties of are_bisimilar (Spec, SpecSym) *)

TraceDepth == 3         \* length of the action sequences compared

\* the lines of a file that are transition records
IsRecord(line) == Len(line) = 3 /\ line[1] # "#"
RecordLines(file) == {i \in 1..Len(file) : IsRecord(file[i])}
Records(file) == {file[i] : i \in RecordLines(file)}
HasNoRecord(file) == RecordLines(file) = {}

\* source of the first record: the initial state of the system the file describes
FirstSource(file) ==
    file[CHOOSE i \in RecordLines(file) : \A j \in RecordLines(file) : i <= j][1]

\* the actions and the states the records of a file mention
Alphabet(file) == {r[2] : r \in Records(file)}
StatesIn(file) == {r[1] : r \in Records(file)} \cup {r[3] : r \in Records(file)}

\* the disjoint union of the systems two files describe: states tagged 1 and 2
Tagged(n, file) == {<<<<n, r[1]>>, r[2], <<n, r[3]>>>> : r \in Records(file)}
UnionTriples(f1, f2) == Tagged(1, f1) \cup Tagged(2, f2)
UnionStates(f1, f2) ==
    {<<1, x>> : x \in StatesIn(f1)} \cup {<<2, x>> : x \in StatesIn(f2)}

\* the initial states of the two files are strongly bisimilar in the union
InitialsBisimilar(f1, f2) ==
    <<<<1, FirstSource(f1)>>, <<2, FirstSource(f2)>>>> \in
        Bisimilarity(UnionStates(f1, f2), UnionTriples(f1, f2))

\* the action sequences of length at most k that x can perform
RECURSIVE Traces(_, _, _)
Traces(T, x, k) ==
    IF k = 0 THEN {<<>>}
    ELSE {<<>>} \cup
         UNION {{<<tr[2]>> \o w : w \in Traces(T, tr[3], k - 1)} :
                  tr \in {t \in T : t[1] = x}}

BothLoad == ~HasNoRecord(file1) /\ ~HasNoRecord(file2)

\* C2: when both inputs load, are_bisimilar returns True exactly when the two
\* alphabets are equal and the two initial states are strongly bisimilar in the
\* disjoint union (they share a block of the returned partition); it returns
\* False when one initial state can perform an action sequence the other cannot.
C2_VerdictIsBisimilarity ==
    (pc = "done" /\ BothLoad) =>
        /\ result = (/\ Alphabet(file1) = Alphabet(file2)
                     /\ InitialsBisimilar(file1, file2))
        /\ (Alphabet(file1) = Alphabet(file2)) =>
              /\ result = SameBlock(partition, init1, init2)
              /\ Traces(UnionTriples(file1, file2), <<1, FirstSource(file1)>>, TraceDepth)
                   # Traces(UnionTriples(file1, file2), <<2, FirstSource(file2)>>, TraceDepth)
                 => result = FALSE

\* verdict True for two systems with different numbers of states
C2_Witness ==
    /\ pc = "done" /\ BothLoad /\ result = TRUE
    /\ Cardinality(StatesIn(file1)) # Cardinality(StatesIn(file2))

\* C3: when the action sets of the two loaded LTSs differ, are_bisimilar
\* returns False whatever the transitions are, also when the extra action is
\* only on states the initial state cannot reach.
C3_AlphabetMismatchIsFalse ==
    (pc = "done" /\ BothLoad /\ lts1.actions # lts2.actions) => result = FALSE

\* alphabets differ although the initial states are bisimilar in the union
C3_Witness ==
    /\ pc = "done" /\ BothLoad /\ result = FALSE
    /\ Alphabet(file1) # Alphabet(file2)
    /\ InitialsBisimilar(file1, file2)

\* C4: comparing an LTS with an identical copy of itself yields True; every
\* state of the LTS shares a block with its copy, whichever state is initial.
C4_Reflexive ==
    (pc = "done" /\ BothLoad /\ file1 = file2) =>
        /\ result = TRUE
        /\ \A x \in StatesIn(file1) :
              SameBlock(partition, "L1_" \o x, "L2_" \o x)

\* an LTS with two states that are not bisimilar, compared with itself
C4_Witness ==
    /\ pc = "done" /\ BothLoad /\ file1 = file2 /\ result = TRUE
    /\ Len(partition) >= 2

\* C5: are_bisimilar(A, B) and are_bisimilar(B, A) return the same verdict,
\* for all inputs, those that fail to load and those with different alphabets
\* included.
C5_Symmetric ==
    (call = 2 /\ pc = "done") => result = first

\* both calls returned True for two different inputs
C5_Witness ==
    /\ call = 2 /\ pc = "done" /\ result = TRUE /\ file1 # file2
    /\ StatesIn(file1) # StatesIn(file2)

\* a file that declares one state and holds no transition record
DeclaresOneState(file) ==
    /\ HasNoRecord(file)
    /\ Cardinality({file[i][1] : i \in {j \in 1..Len(file) : Len(file[j]) = 1}}) = 1

\* C6: comparing two LTSs that each consist of one declared initial state, no
\* transition and the empty alphabet yields True.
C6_SingleStatesBisimilar ==
    (pc = "done" /\ DeclaresOneState(file1) /\ DeclaresOneState(file2)) =>
        result = TRUE

\* C7: if either input holds no valid transition record, are_bisimilar returns
\* False and raises nothing, in either argument position and whatever the
\* other input holds; it does not go on to merge or refine.
C7_NoRecordIsFalse ==
    (HasNoRecord(file1) \/ HasNoRecord(file2)) =>
        /\ pc \in {"load1", "load2", "done"}
        /\ pc = "done" => (raised = "none" /\ result = FALSE)

\* the second input holds no record, the first one loads
C7_Witness ==
    /\ pc = "done" /\ result = FALSE
    /\ ~HasNoRecord(file1) /\ HasNoRecord(file2) /\ Len(file2) > 0

----------------------------------------------------------------------------
(* Further properties of kanellakis_smolka (SpecKS, SpecKSFair) *)

\* C11: kanellakis_smolka terminates on every LTS: once called, the loop
\* reaches a pass that splits nothing and the partition is returned.
C11_Terminates == (pc = "ks_entry") ~> (pc = "ks_done")

\* a return after three passes, the last of which split nothing
C11_Witness == pc = "ks_done" /\ passes = 3 /\ Len(partition) = 3

----------------------------------------------------------------------------
(* Properties of the LTS operations (SpecLTS) *)

\* every source and target of a transition is in states, every label in actions
WellFormed(l) ==
    \A s \in DOMAIN l.transitions :
        /\ s \in l.states
        /\ \A i \in 1..Len(l.transitions[s]) :
              /\ l.transitions[s][i][1] \in l.actions
              /\ l.transitions[s][i][2] \in l.states

\* C12: after any sequence of add_transition and prefix_states calls on a new
\* LTS, and for the two loaded LTS and the merged LTS of are_bisimilar, every
\* endpoint of a transition is in states and every label is in actions.
C12_WellFormedPreserved ==
    WellFormed(lts) /\ WellFormed(lts1) /\ WellFormed(lts2)

\* the merged LTS of two relabelled LTS, each with a transition
C12_WitnessMerged ==
    /\ pc = "ks_entry" /\ Len(maps) = 2
    /\ Cardinality(lts.states) >= 3 /\ NTransitions(lts) = 4

\* new is old with every state s renamed to m[s]: m is a bijection from the
\* states of old to the states of new, the actions are the same, and the
\* transitions are the renamed transitions of old, one for one
Renamed(old, new, m) ==
    /\ DOMAIN m = old.states
    /\ {m[s] : s \in old.states} = new.states
    /\ \A s, t \in old.states : m[s] = m[t] => s = t
    /\ Cardinality(new.states) = Cardinality(old.states)
    /\ new.actions = old.actions
    /\ NTransitions(new) = NTransitions(old)
    /\ TriplesOf(new) = {<<m[tr[1]], tr[2], m[tr[3]]>> : tr \in TriplesOf(old)}
    /\ \A s \in DOMAIN old.transitions :
          /\ m[s] \in DOMAIN new.transitions
          /\ Len(new.transitions[m[s]]) = Len(old.transitions[s])
          /\ \A i \in 1..Len(old.transitions[s]) :
                new.transitions[m[s]][i] =
                    <<old.transitions[s][i][1], m[old.transitions[s][i][2]]>>

\* C13: prefix_states returns a bijection from the old states onto the new
\* states; the LTS keeps its number of states and of transitions and its
\* actions, and each transition (s, a, t) becomes (map[s], a, map[t]).
C13_PrefixStatesRenames ==
    [][/\ (pc = "build" /\ Len(maps') = Len(maps) + 1)
            => Renamed(lts, lts', maps'[Len(maps')])
       /\ (pc = "rename" /\ pc' = "merge")
            => Renamed(lts1, lts1', maps'[1]) /\ Renamed(lts2, lts2', maps'[2])]_vars

\* an LTS of three states and three transitions that has just been relabelled
C13_Witness ==
    /\ pc = "build" /\ Len(maps) = 1
    /\ Cardinality(DOMAIN maps[1]) = 3
    /\ lts.states = {maps[1][s] : s \in DOMAIN maps[1]}
    /\ NTransitions(lts) = 3 /\ Cardinality(DOMAIN lts.transitions) >= 2

----------------------------------------------------------------------------
(* Further properties of the refinement (SpecKS) *)

\* a pass boundary: a pass is about to visit its first block
PassBoundary == pc = "ks_for" /\ idx = 1

\* no block of part holds two states that are not strongly bisimilar
NoBlockConflates(part) ==
    LET B == Bisimilarity(lts.states, TriplesOf(lts)) IN
    \A b \in Blocks(part) : \A x, y \in b : <<x, y>> \in B

\* C14 as stated: at every pass boundary, the first included, and at the
\* return, no block contains two states that are not strongly bisimilar.
C14_NeverConflates ==
    (PassBoundary \/ pc = "ks_done") => NoBlockConflates(partition)

\* C14: in the partition kanellakis_smolka returns, and at the end of a pass
\* that split nothing, no block contains two states that are not strongly
\* bisimilar; at earlier pass boundaries the blocks may (the first partition
\* is one block of all states).
C14_ReturnedNeverConflates ==
    (pc = "ks_done" \/ (pc = "ks_for" /\ idx > Len(partition) /\ ~changed))
        => NoBlockConflates(partition)

\* a return after a split, with a block of two states left together
C14_Witness ==
    /\ pc = "ks_done" /\ passes >= 2
    /\ ~NoBlockConflates(<<lts.states>>)
    /\ \E i \in 1..Len(partition) : Cardinality(partition[i]) = 2

\* C15: refinement never separates bisimilar states: at every pass boundary
\* and at the return, two strongly bisimilar states are in the same block.
C15_BisimilarStayTogether ==
    (PassBoundary \/ pc = "ks_done") =>
        \A p \in Bisimilarity(lts.states, TriplesOf(lts)) :
            SameBlock(partition, p[1], p[2])

\* a boundary after a split, with two distinct bisimilar states
C15_Witness ==
    /\ PassBoundary /\ passes >= 2 /\ Len(partition) >= 2
    /\ \E p \in Bisimilarity(lts.states, TriplesOf(lts)) :
          /\ p[1] # p[2]
          /\ p[1] \in DOMAIN lts.transitions

\* one enumeration order of a set, the same wherever it is asked for
FixedOrder(S) == CHOOSE f \in Orderings(S) : TRUE

\* a pass over the blocks part[i], part[i+1], ... with the actions and the
\* sub-blocks taken in their fixed order: the blocks it appends
RECURSIVE FixedPass(_, _, _)
FixedPass(part, i, l) ==
    IF i > Len(part) THEN <<>>
    ELSE LET block == part[i]
             order == FixedOrder(l.actions)
             k     == FirstSplitter(block, order, part, l.transitions)
         IN (IF IsSingleton(block) \/ k = 0 THEN <<block>>
             ELSE FixedOrder(split_block(block, order[k], part, l.transitions)))
            \o FixedPass(part, i + 1, l)

\* the passes from part on, until one splits nothing
RECURSIVE FixedRun(_, _)
FixedRun(part, l) ==
    LET new_part == FixedPass(part, 1, l) IN
    IF Len(new_part) = Len(part) THEN part ELSE FixedRun(new_part, l)

\* kanellakis_smolka(l) run with every set enumerated in its fixed order
RunFixed(l) == IF l.states = {} THEN <<>> ELSE FixedRun(<<l.states>>, l)

\* C16: whatever the order in which the actions are enumerated at each pass
\* and the order of the blocks, the returned partition has the blocks of the
\* run that enumerates every set in one fixed order.
C16_OrderIndependent ==
    pc = "ks_done" => Blocks(partition) = Blocks(RunFixed(lts))

\* a return after two splits, the last pass with the actions in another order
\* than the fixed one and the blocks in another order than the fixed run's
C16_Witness ==
    /\ pc = "ks_done" /\ passes = 3
    /\ Cardinality(lts.actions) = 2
    /\ action_order # FixedOrder(lts.actions)
    /\ partition # RunFixed(lts)

\* C17: the number of passes of the while loop, the last one that splits
\* nothing included, is at most the number of blocks of the partition (during
\* the run and at the return), which is at most the number of states.
C17_PassesBounded ==
    pc \in {"ks_for", "ks_done"} =>
        /\ passes <= Len(partition)
        /\ Len(partition) <= Cardinality(lts.states)
        /\ passes < MaxPasses

\* a return where the bound is tight: three states, three blocks, three passes
C17_Witness ==
    /\ pc = "ks_done"
    /\ passes = Cardinality(lts.states)
    /\ Len(partition) = Cardinality(lts.states)
    /\ Cardinality(lts.states) = 3

\* the groups of the states of block that have the same signature for action a:
\* the same set of blocks of part reached by a
SignatureGroups(block, a, part, T) ==
    {{y \in block : BlocksReached(y, a, part, T) = BlocksReached(x, a, part, T)} :
        x \in block}

\* the positions in order of the actions whose grouping of block has more than
\* one group
SplittingActions(block, order, part, T) ==
    {i \in 1..Len(order) :
        Cardinality(SignatureGroups(block, order[i], part, T)) > 1}

\* C18: a step of a pass over a block appends to the new partition either the
\* block itself, when it has at most one state or no action splits it, or the
\* signature groups of the first action in enumeration order that yields more
\* than one group, and of no later action; the signatures are taken against
\* the partition of the start of the pass, which the step leaves as it is.
C18_FirstSplittingActionOnly ==
    [][(pc = "ks_for" /\ idx' = idx + 1) =>
          LET block    == partition[idx]
              T        == TriplesOf(lts)
              hits     == SplittingActions(block, action_order, partition, T)
              appended == SubSeq(new_partition', Len(new_partition) + 1,
                                 Len(new_partition'))
          IN /\ partition' = partition
             /\ SubSeq(new_partition', 1, Len(new_partition)) = new_partition
             /\ IF Cardinality(block) <= 1 \/ hits = {}
                THEN appended = <<block>> /\ changed' = changed
                ELSE LET k == CHOOSE i \in hits : \A j \in hits : i <= j
                         groups == SignatureGroups(block, action_order[k],
                                                   partition, T)
                     IN /\ Blocks(appended) = groups
                        /\ Len(appended) = Cardinality(groups)
                        /\ changed' = TRUE]_vars

\* in a second pass, the first block, of two states, has just been split by
\* the second action of the order, the first action giving one group
C18_Witness ==
    /\ pc = "ks_for" /\ passes = 2 /\ idx = 2
    /\ Cardinality(partition[1]) = 2
    /\ Len(new_partition) = 2 /\ changed
    /\ Len(action_order) = 2
    /\ Cardinality(SignatureGroups(partition[1], action_order[1], partition,
                                   TriplesOf(lts))) = 1

\* C19: inserting again a transition that is already present leaves states and
\* actions as they are, and kanellakis_smolka returns for the LTS with the
\* repeated transition the blocks it returns for the LTS without it.
C19_DuplicatesHarmless ==
    pc = "ks_done" =>
        \A tr \in TriplesOf(lts) :
            LET again == add_transition(lts, tr[1], tr[2], tr[3]) IN
            /\ again.states = lts.states
            /\ again.actions = lts.actions
            /\ NTransitions(again) = NTransitions(lts) + 1
            /\ TriplesOf(again) = TriplesOf(lts)
            /\ Blocks(RunFixed(again)) = Blocks(partition)

\* a return for an LTS that holds a transition twice, with a block of two
\* states of which one has the repeated transition
C19_Witness ==
    /\ pc = "ks_done" /\ Len(partition) = 2
    /\ NTransitions(lts) > Cardinality(TriplesOf(lts))
    /\ \E i \in 1..Len(partition) :
          /\ Cardinality(partition[i]) = 2
          /\ partition[i] \subseteq DOMAIN lts.transitions

\* C20: kanellakis_smolka reads its LTS and never writes it: every step of a
\* call leaves lts.states, lts.actions and lts.transitions, the set of keys
\* of the dict included, as they were, so they are at the return what they
\* were at the call.
C20_ReadOnly ==
    [][(pc = "ks_entry" \/ pc = "ks_for") =>
          (/\ lts'.states = lts.states
           /\ lts'.actions = lts.actions
           /\ DOMAIN lts'.transitions = DOMAIN lts.transitions
           /\ lts'.transitions = lts.transitions)]_vars

\* a return after a split, for an LTS with a deadlock state: a state without
\* an entry in transitions, whose transitions split_block has asked for
C20_Witness ==
    /\ pc = "ks_done" /\ passes >= 2
    /\ lts.states \ DOMAIN lts.transitions # {}

====
